---- MODULE Spec2Model ----
(***************************************************************************)
(* A model of the dylib shared-library loader: the library object (its     *)
(* native handle and file descriptor), the operating system loader it      *)
(* drives, the symbol-table reader, the demangler and formatter, and the   *)
(* name resolver of library::get_symbol.                                   *)
(*                                                                         *)
(* Text is modelled as a sequence of one-character strings, so that find,  *)
(* replace, prefix tests and indexing are computed as the code computes    *)
(* them.  A null pointer argument is the one-element sequence Null.        *)
(***************************************************************************)
EXTENDS Integers, Sequences, FiniteSets, TLC

(***************************************************************************)
(* Bounds of the model.                                                    *)
(***************************************************************************)
\* Number of library objects (slots in which an object can be constructed).
NumObjs == 2
\* Number of successful loader opens in one behaviour.
MaxOpens == 2

\* Number of pieces a text handed to the formatter is made of.
MaxTokens == 3

Objs == 1..NumObjs

(***************************************************************************)
(* std::string operations.                                                 *)
(***************************************************************************)
Null == <<"NULL">>

\* Is t found in s at the 1-based position i.
MatchAt(s, t, i) ==
    /\ i >= 1
    /\ i + Len(t) - 1 <= Len(s)
    /\ \A k \in 1..Len(t) : s[i + k - 1] = t[k]

\* std::string::find(t, pos): the first 1-based position >= pos, or 0 (npos).
RECURSIVE Find(_, _, _)
Find(s, t, pos) ==
    IF pos + Len(t) - 1 > Len(s) THEN 0
    ELSE IF MatchAt(s, t, pos) THEN pos
    ELSE Find(s, t, pos + 1)

\* std::string::find_last_of(c): the last 1-based position of c, or 0 (npos).
FindLastOf(s, c) ==
    LET hits == {i \in 1..Len(s) : s[i] = c}
    IN  IF hits = {} THEN 0 ELSE CHOOSE i \in hits : \A j \in hits : i >= j

\* std::string::replace(pos, len, r) at the 1-based position pos.
StrReplace(s, pos, len, r) ==
    SubSeq(s, 1, pos - 1) \o r \o SubSeq(s, pos + len, Len(s))

\* std::find(result.begin(), result.end(), x) != result.end()
Contains(list, x) == \E i \in 1..Len(list) : list[i] = x

(***************************************************************************)
(* format.cpp: the symbol formatter, in its two platform variants.         *)
(***************************************************************************)
\* while ((pos = symbol.find(find, pos)) != npos) symbol.replace(pos, ...):
\* ReplaceAt is the loop body for the position pos that find answered.
RECURSIVE ReplaceAt(_, _, _, _)
ReplaceFrom(symbol, find, replace, pos) ==
    ReplaceAt(symbol, find, replace, Find(symbol, find, pos))

ReplaceAt(symbol, find, replace, pos) ==
    IF pos = 0 THEN symbol
    ELSE ReplaceFrom(StrReplace(symbol, pos, Len(find), replace), find, replace, pos)

replace_occurrences(symbol, find, replace) == ReplaceFrom(symbol, find, replace, 1)

\* A run of replace_occurrences calls, one per rule <<find, replace>>.
RECURSIVE ReplaceAll(_, _, _)
ReplaceAll(symbol, rules, i) ==
    IF i > Len(rules) THEN symbol
    ELSE ReplaceAll(replace_occurrences(symbol, rules[i][1], rules[i][2]), rules, i + 1)

RECURSIVE CommaFrom(_, _)
CommaFrom(symbol, i) ==
    IF i > Len(symbol) THEN <<>>
    ELSE (IF symbol[i] = "," THEN <<",", " ">> ELSE <<symbol[i]>>) \o CommaFrom(symbol, i + 1)

add_space_after_comma(symbol) == CommaFrom(symbol, 1)

MsvcRules ==
    << << <<"(", "c", "l", "a", "s", "s", " ">>, <<"(">> >>,
       << <<"<", "c", "l", "a", "s", "s", " ">>, <<"<">> >>,
       << <<",", "c", "l", "a", "s", "s", " ">>, <<",">> >>,
       << <<"(", "s", "t", "r", "u", "c", "t", " ">>, <<"(">> >>,
       << <<"<", "s", "t", "r", "u", "c", "t", " ">>, <<"<">> >>,
       << <<",", "s", "t", "r", "u", "c", "t", " ">>, <<",">> >>,
       << <<">", " ", ">">>, <<">", ">">> >>,
       << <<">", "c", "o", "n", "s", "t">>, <<">", " ", "c", "o", "n", "s", "t">> >> >>

format_symbol_msvc(symbol) == add_space_after_comma(ReplaceAll(symbol, MsvcRules, 1))

\* while ((pos = symbol.find(c, pos)) != npos): SeparatorAt is the loop body
\* for the position pos that find answered.
RECURSIVE SeparatorAt(_, _, _)
SeparatorFrom(symbol, c, pos) == SeparatorAt(symbol, c, Find(symbol, <<c>>, pos))

SeparatorAt(symbol, c, pos) ==
    IF pos = 0 THEN symbol
    ELSE IF /\ pos > 1
            /\ symbol[pos - 1] # " "
            /\ symbol[pos - 1] # "&"
            /\ symbol[pos - 1] # "*"
            /\ symbol[pos - 1] # "("
         THEN SeparatorFrom(StrReplace(symbol, pos, 1, <<" ", c>>), c, pos + 2)
         ELSE SeparatorFrom(symbol, c, pos + 1)

add_sym_separator(symbol, c) == SeparatorFrom(symbol, c, 1)

GccRules ==
    << << <<"s", "t", "d", ":", ":", "_", "_", "1", ":", ":">>,
          <<"s", "t", "d", ":", ":">> >>,
       << <<"s", "t", "d", ":", ":", "_", "_", "c", "x", "x", "1", "1", ":", ":">>,
          <<"s", "t", "d", ":", ":">> >>,
       << <<"[", "a", "b", "i", ":", "c", "x", "x", "1", "1", "]">>, <<>> >>,
       << <<"[", "a", "b", "i", ":", "u", "e", "1", "7", "0", "0", "0", "6", "]">>, <<>> >>,
       << <<"(", ")">>, <<"(", "v", "o", "i", "d", ")">> >>,
       << <<">", " ", ">">>, <<">", ">">> >> >>

format_symbol_gcc(symbol) ==
    add_sym_separator(add_sym_separator(ReplaceAll(symbol, GccRules, 1), "*"), "&")

\* The variant the build selects: MSVC on Windows, gcc/clang elsewhere.
format_symbol(plat, symbol) ==
    IF plat = "win" THEN format_symbol_msvc(symbol) ELSE format_symbol_gcc(symbol)

(***************************************************************************)
(* The symbols of the modelled libraries.  Raw names are the strings the   *)
(* binary stores; the demangled texts are what the toolchain's demangler   *)
(* answers for them (abi::__cxa_demangle, UnDecorateSymbolName).           *)
(***************************************************************************)
NS == <<"n", ":", ":">>

\* Symbols with unmangled names: an exported function, a static one, one
\* whose raw name holds a parenthesis, and one (an assembler label) whose raw
\* name reads like a qualified C++ name.
C_a == <<"a">>
C_s == <<"s">>
C_w == <<"w", "(", "x">>
C_nf == NS \o <<"f">>

\* Itanium-mangled names.
Z_f0 == <<"_", "Z", "f", "0">>
Z_f1 == <<"_", "Z", "f", "1">>
Z_f2 == <<"_", "Z", "f", "2">>
Z_g == <<"_", "Z", "g">>
Z_v == <<"_", "Z", "v">>
Z_h == <<"_", "Z", "h">>
Z_p == <<"_", "Z", "p">>

\* MSVC-decorated names.
W_f0 == <<"?", "f", "0">>
W_f1 == <<"?", "f", "1">>
W_f2 == <<"?", "f", "2">>
W_g == <<"?", "g">>
W_v == <<"?", "v">>
W_h == <<"?", "h">>

\* abi::__cxa_demangle: the demangled text, or <<>> for a null result (the
\* name is not a mangled name).
cxa_demangle(symbol) ==
    CASE symbol = Z_f0 -> NS \o <<"f", "(", ")">>
      [] symbol = Z_f1 -> NS \o <<"f", "(", "d", ")">>
      [] symbol = Z_f2 -> NS \o <<"f", "2", "(", ")">>
      [] symbol = Z_g -> NS \o <<"f", ":", ":", "g", "(", ")">>
      [] symbol = Z_v -> NS \o <<"v">>
      [] symbol = Z_h -> NS \o <<"h", "(", ")">>
      [] symbol = Z_p -> <<"p", "(", "c", "*", ")">>
      [] OTHER -> <<>>

\* UnDecorateSymbolName with the full-signature flags; a name that is not
\* decorated is copied unchanged.
undecorate_signature(symbol) ==
    CASE symbol = W_f0 -> NS \o <<"f", "(", "v", "o", "i", "d", ")">>
      [] symbol = W_f1 -> NS \o <<"f", "(", "d", ",", "d", ")">>
      [] symbol = W_f2 -> NS \o <<"f", "2", "(", "v", "o", "i", "d", ")">>
      [] symbol = W_g -> NS \o <<"f", ":", ":", "g", "(", "v", "o", "i", "d", ")">>
      [] symbol = W_v -> <<"d", " ">> \o NS \o <<"v">>
      [] symbol = W_h -> NS \o <<"h", "(", "v", "o", "i", "d", ")">>
      [] OTHER -> symbol

\* UnDecorateSymbolName with UNDNAME_NAME_ONLY.
undecorate_name(symbol) ==
    CASE symbol = W_f0 -> NS \o <<"f">>
      [] symbol = W_f1 -> NS \o <<"f">>
      [] symbol = W_f2 -> NS \o <<"f", "2">>
      [] symbol = W_g -> NS \o <<"f", ":", ":", "g">>
      [] symbol = W_v -> NS \o <<"v">>
      [] symbol = W_h -> NS \o <<"h">>
      [] OTHER -> symbol

(***************************************************************************)
(* demangle.cpp: demangle_symbol, in its two platform variants.  The empty *)
(* text means "not a mangled name".                                        *)
(***************************************************************************)
\* The two texts UnDecorateSymbolName answered, <<>> for a failed call.
Undecorated(signature, undecorated) ==
    IF signature = <<>> \/ undecorated = <<>> THEN <<>>
    ELSE IF Find(signature, undecorated, 1) = 1
         THEN format_symbol_msvc(signature)
         ELSE undecorated

demangle_symbol_msvc(symbol) ==
    Undecorated(undecorate_signature(symbol), undecorate_name(symbol))

\* The text __cxa_demangle answered, <<>> for null.
Demangled(res) == IF res = <<>> THEN <<>> ELSE format_symbol_gcc(res)

demangle_symbol_gcc(symbol) == Demangled(cxa_demangle(symbol))

demangle_symbol(plat, symbol) ==
    IF plat = "win" THEN demangle_symbol_msvc(symbol) ELSE demangle_symbol_gcc(symbol)

(***************************************************************************)
(* The library files.  A container is what the file holds: its format, its *)
(* symbol-table parts in file order (ELF sections, Mach-O slices, the PE   *)
(* export names) and dyn, the names the loader resolves for the running    *)
(* process once the file is loaded.                                        *)
(***************************************************************************)
\* The Mach-O convention: a stored name carries one leading underscore.
U(name) == <<"_">> \o name

ElfFull ==
    [fmt |-> "elf",
     parts |-> << [kind |-> "SYMTAB",
                   syms |-> <<C_a, C_s, <<>>, Z_f0, Z_f1, Z_f2, Z_h>>],
                  [kind |-> "OTHER", syms |-> <<C_s, Z_g>>],
                  [kind |-> "DYNSYM", syms |-> <<C_a, Z_f0, Z_f1, Z_f2>>] >>,
     dyn |-> {C_a, Z_f0, Z_f1, Z_f2}]

ElfSingle ==
    [fmt |-> "elf",
     parts |-> << [kind |-> "DYNSYM",
                   syms |-> <<C_a, Z_g, Z_v, Z_p, C_w, Z_f0, Z_v, Z_f1, C_nf>>] >>,
     dyn |-> {C_a, Z_g, Z_v, Z_p, C_w, Z_f0, Z_f1, C_nf}]

ElfBroken == [fmt |-> "elf_begin() failed", parts |-> <<>>, dyn |-> {C_a}]

MachThin ==
    [fmt |-> "macho64",
     parts |-> << [kind |-> "x86_64",
                   syms |-> <<U(C_a), U(C_s), <<>>, U(Z_f0), U(Z_f1), U(Z_h), U(C_a)>>,
                   past |-> {}, mapped |-> TRUE] >>,
     dyn |-> {C_a, Z_f0, Z_f1}]

MachFat ==
    [fmt |-> "fat",
     parts |-> << [kind |-> "x86_64",
                   syms |-> <<U(C_a), U(Z_f0), U(Z_v), U(C_w), U(Z_f1), U(C_nf)>>,
                   past |-> {}, mapped |-> TRUE],
                  [kind |-> "i386", syms |-> <<U(C_a), U(Z_f0), U(Z_g)>>,
                   past |-> {}, mapped |-> TRUE] >>,
     dyn |-> {C_a, Z_f0, Z_v, C_w, Z_f1, C_nf}]

MachBroken == [fmt |-> "Unsupported file format", parts |-> <<>>, dyn |-> {C_a}]

\* A Mach-O image whose second symbol has a string index that is not
\* smaller than strsize.  past holds the entries whose index lies past the
\* end of the string-table buffer; such an entry of syms is the text the
\* memory past the buffer holds (beyond), and mapped tells whether that
\* memory can be read at all.
MachPastEnd(beyond, mapped) ==
    [fmt |-> "macho64",
     parts |-> << [kind |-> "x86_64", syms |-> <<U(C_a), beyond, U(Z_f0)>>,
                   past |-> {2}, mapped |-> mapped] >>,
     dyn |-> {C_a, Z_f0}]

\* What the memory past the end of the buffer may hold, read as a C string.
Beyond == {<<>>, U(C_s), U(Z_h)}

\* The outcome of a read of memory that is not mapped.
Fault == "SIGSEGV"

PeFull ==
    [fmt |-> "pe",
     parts |-> << [kind |-> "exports",
                   syms |-> <<C_a, W_f0, W_f1, W_f2, W_v, W_h, <<>> >>] >>,
     dyn |-> {C_a, W_f0, W_f1, W_f2, W_v}]

PeSingle ==
    [fmt |-> "pe",
     parts |-> << [kind |-> "exports", syms |-> <<C_a, W_g, W_f0, C_w, W_f1, C_nf>>] >>,
     dyn |-> {C_a, W_g, W_f0, C_w, W_f1, C_nf}]

PeBroken == [fmt |-> "No export directory found", parts |-> <<>>, dyn |-> {}]

Platforms == {"linux", "mac", "win"}

Containers(plat) ==
    CASE plat = "linux" -> {ElfFull, ElfSingle, ElfBroken}
      [] plat = "mac" -> {MachThin, MachFat, MachBroken}
      [] plat = "win" -> {PeFull, PeSingle, PeBroken}

\* Every name a loader can be asked for, in a fixed order: the address of a
\* symbol is derived from its position.
AllNames ==
    <<C_a, C_s, C_w, C_nf, Z_f0, Z_f1, Z_f2, Z_g, Z_v, Z_h, Z_p,
      W_f0, W_f1, W_f2, W_g, W_v, W_h>>

NameIndex(name) == CHOOSE i \in 1..Len(AllNames) : AllNames[i] = name

\* The names a caller asks get_symbol for.
Requests ==
    {Null, <<>>, C_a, C_s, <<"w">>, <<"z", "z">>, Z_f0, W_f0,
     NS \o <<"f">>,
     NS \o <<"f", "(", "v", "o", "i", "d", ")">>,
     NS \o <<"f", "(", "d", ")">>,
     NS \o <<"f", "(", "d", ",", " ", "d", ")">>,
     NS \o <<"f", "2">>,
     NS \o <<"v">>,
     NS \o <<"h">>,
     NS \o <<"f", ":", ":", "g">>,
     <<"p", "(", "c", " ", "*", ")">>}

(***************************************************************************)
(* State.                                                                  *)
(*   platform  the build: "linux", "mac" or "win"                          *)
(*   rev       the revision of the class: "DyLib" (DyLib.hpp), "dylib"     *)
(*             (include/dylib.hpp) or "library" (src/dylib.cpp)            *)
(*   content   what each library file holds                                *)
(*   alive     the objects that are constructed and not yet destroyed      *)
(*   m_handle  each object's native handle, 0 for null                     *)
(*   m_fd      each object's file descriptor, -1 for none (macOS only)     *)
(*   opens, closes   per native handle, how often the loader opened and    *)
(*             closed it                                                   *)
(*   fdFile    the file each descriptor ever returned by open() is on, 0   *)
(*             once it is closed                                           *)
(*   fdPos     the file offset of each descriptor: 0 at the start of the   *)
(*             file, 1 where a read of the symbols leaves it               *)
(*   fdOpen    the descriptors that are open                               *)
(*   res       what the last operation did: its arguments, its outcome,    *)
(*             the address or list it returned, the native calls it made   *)
(*             (res.other is the second argument: the source of a move,    *)
(*             the decorations of a construction from a path)              *)
(***************************************************************************)
VARIABLES platform, rev, content, alive, m_handle, m_fd, opens, closes, fdFile, fdPos,
          fdOpen, res

vars == <<platform, rev, content, alive, m_handle, m_fd, opens, closes, fdFile, fdPos,
          fdOpen, res>>

Revisions == {"DyLib", "dylib", "library"}

\* The library files on disk; the loader's handle for a file is its number
\* (dlopen and LoadLibrary answer the same handle for the same file and
\* count the references).
Files == {1, 2}

(***************************************************************************)
(* The native loader and the file system.                                  *)
(***************************************************************************)
\* dlsym / GetProcAddress on a handle of a loaded file: the address, or 0.
locate_symbol(lib, name) ==
    IF lib \in Files /\ name \in content[lib].dyn
    THEN lib * 100 + NameIndex(name)
    ELSE 0

\* The native calls an operation makes are recorded as tuples.
CallSym(lib, name) == <<"locate_symbol", lib, name>>
CallOpen(path) == <<"open_lib", 0, path>>
CallClose(lib) == <<"close_lib", lib, <<>> >>
CallFdOpen(path) == <<"open", 0, path>>
CallFdClose(fd) == <<"close", fd, <<>> >>

(***************************************************************************)
(* symbols.cpp: the container readers.  A reader answers                   *)
(* [err |-> the diagnostic it throws, or "", list |-> the names].          *)
(***************************************************************************)
\* if (std::find(result.begin(), result.end(), s) == result.end())
\*     result.push_back(s);
PushUnique(result, s) == IF ~Contains(result, s) THEN Append(result, s) ELSE result

PushDemangled(result, demangled) ==
    IF demangled # <<>> THEN PushUnique(result, demangled) ELSE result

\* An add_symbol that takes its demangle branch whatever it is asked: a name
\* the demangler answers nothing for is not pushed.
add_symbol_demangled_only(result, symbol, demangle) ==
    IF symbol = Null \/ symbol = <<>> THEN result
    ELSE PushDemangled(result, demangle_symbol(platform, symbol))

\* An add_symbol built without the __APPLE__ branch: the name is pushed as
\* the table stores it.
add_symbol_keeping_underscore(result, symbol, demangle) ==
    IF symbol = Null \/ symbol = <<>> THEN result
    ELSE IF demangle
         THEN PushDemangled(result, demangle_symbol(platform, symbol))
         ELSE PushUnique(result, symbol)

add_symbol(result, symbol, demangle) ==
    IF symbol = Null \/ symbol = <<>> THEN result
    ELSE IF demangle
         THEN PushDemangled(result, demangle_symbol(platform, symbol))
         ELSE PushUnique(result, IF platform = "mac" /\ symbol[1] = "_"
                                 THEN Tail(symbol)
                                 ELSE symbol)

\* The loop over the entries of one symbol table: for (j = 0; j < nsyms; j++).
RECURSIVE AddEntries(_, _, _, _, _, _)
AddEntries(result, syms, j, handle, demangle, loadable) ==
    IF j > Len(syms) THEN result
    ELSE AddEntries(IF ~loadable \/ locate_symbol(handle, syms[j]) # 0
                    THEN add_symbol(result, syms[j], demangle)
                    ELSE result,
                    syms, j + 1, handle, demangle, loadable)

\* Mach-O: one architecture image, read into a list of its own.
get_symbols_at_off(handle, part, demangle, loadable) ==
    AddEntries(<<>>, part.syms, 1, handle, demangle, loadable)

RECURSIVE FatSlices(_, _, _, _, _, _)
FatSlices(symbols_list, parts, i, handle, demangle, loadable) ==
    IF i > Len(parts) THEN symbols_list
    ELSE FatSlices(symbols_list \o get_symbols_at_off(handle, parts[i], demangle, loadable),
                   parts, i + 1, handle, demangle, loadable)

\* read(fd, &magic, sizeof(magic)) at the offset pos of the descriptor: the
\* magic is at the start of the file.  A thin image is read as the one slice
\* of the file.  name = &strtab[strx]
\* is not checked against strsize: an index past the end of the buffer is
\* read like any other, and the read faults when that memory is not mapped.
get_symbols_macho(handle, file, pos, demangle, loadable) ==
    IF pos # 0
    THEN [err |-> "Unsupported file format", list |-> <<>>]
    ELSE IF \E i \in 1..Len(content[file].parts) :
           content[file].parts[i].past # {} /\ ~content[file].parts[i].mapped
    THEN [err |-> Fault, list |-> <<>>]
    ELSE IF content[file].fmt \in {"fat", "macho64", "macho32"}
    THEN [err |-> "",
          list |-> FatSlices(<<>>, content[file].parts, 1, handle, demangle, loadable)]
    ELSE [err |-> "Unsupported file format", list |-> <<>>]

\* ELF: every SHT_SYMTAB and SHT_DYNSYM section, read into one list.
RECURSIVE ElfSections(_, _, _, _, _, _)
ElfSections(result, parts, i, handle, demangle, loadable) ==
    IF i > Len(parts) THEN result
    ELSE ElfSections(IF parts[i].kind \in {"SYMTAB", "DYNSYM"}
                     THEN AddEntries(result, parts[i].syms, 1, handle, demangle, loadable)
                     ELSE result,
                     parts, i + 1, handle, demangle, loadable)

get_symbols_elf(handle, file, demangle, loadable) ==
    IF content[file].fmt # "elf"
    THEN [err |-> content[file].fmt, list |-> <<>>]
    ELSE [err |-> "",
          list |-> ElfSections(<<>>, content[file].parts, 1, handle, demangle, loadable)]

\* PE: the export names of the mapped module.
get_symbols_pe(handle, demangle, loadable) ==
    IF content[handle].fmt # "pe"
    THEN [err |-> content[handle].fmt, list |-> <<>>]
    ELSE [err |-> "",
          list |-> AddEntries(<<>>, content[handle].parts[1].syms, 1,
                              handle, demangle, loadable)]

\* The file behind the byte source the reader is given: the descriptor on
\* macOS, the loaded file elsewhere.
SourceFile(handle, fd) ==
    IF platform = "mac" /\ fd \in DOMAIN fdFile THEN fdFile[fd] ELSE handle

\* The file offset of a descriptor.
FdPos(fd) == IF fd \in DOMAIN fdPos THEN fdPos[fd] ELSE 0

\* An lseek that leaves the offset where it is.
lseek_cur(pos, offset) == pos

\* lseek(fd, offset, SEEK_SET)
lseek_set(pos, offset) == offset

\* The offset a read of the file leaves its descriptor at: past the load
\* commands of the last image read, or at the start when the magic is not
\* one of Mach-O.
PosAfterRead(file) ==
    IF content[file].fmt \in {"fat", "macho64", "macho32"} /\ content[file].parts # <<>>
    THEN 1
    ELSE 0

get_symbols(handle, fd, demangle, loadable) ==
    CASE platform = "win" -> get_symbols_pe(handle, demangle, loadable)
      [] platform = "mac" -> get_symbols_macho(handle, SourceFile(handle, fd),
                                               lseek_set(FdPos(fd), 0), demangle, loadable)
      [] OTHER -> get_symbols_elf(handle, SourceFile(handle, fd), demangle, loadable)

(***************************************************************************)
(* The symbol catalog behind library::symbols(): the internal              *)
(* get_symbols(handle, fd) that dylib.cpp declares, answering a list of    *)
(* internal_symbol_info.  Its names are the reader's list read with        *)
(* loadable = false; an entry is loadable when the reader keeps its name   *)
(* with loadable = true, which is the test of symbols.cpp on the name as   *)
(* the table stores it.                                                    *)
(***************************************************************************)
\* The entry of a raw name whose demangled text (<<>> for a plain C symbol)
\* is given.
SymbolInfoOf(name, demangled, loadable) ==
    [name |-> name,
     demangled_name |-> IF demangled = <<>> THEN name ELSE demangled,
     type |-> IF demangled = <<>> THEN "C" ELSE "CPP",
     loadable |-> loadable]

\* The entries of the tables the reader walks, in reading order: each is
\* handed to the native lookup when loadable is asked for.
RECURSIVE TableEntries(_, _)
TableEntries(parts, i) ==
    IF i > Len(parts) THEN <<>>
    ELSE (IF parts[i].kind = "OTHER" THEN <<>> ELSE parts[i].syms)
           \o TableEntries(parts, i + 1)

LookupCalls(handle, entries) == [i \in 1..Len(entries) |-> CallSym(handle, entries[i])]

\* all is the reader's answer with loadable = false, kept its answer with
\* loadable = true, entries the table entries it looked up.
CatalogOf(all, kept, handle, entries) ==
    IF all.err # "" THEN [err |-> all.err, list |-> <<>>, calls |-> <<>>]
    ELSE [err |-> "",
          list |-> [i \in 1..Len(all.list) |->
                      SymbolInfoOf(all.list[i], demangle_symbol(platform, all.list[i]),
                                   Contains(kept.list, all.list[i]))],
          calls |-> LookupCalls(handle, entries)]

get_symbols_info(handle, fd) ==
    CatalogOf(get_symbols(handle, fd, FALSE, FALSE), get_symbols(handle, fd, FALSE, TRUE),
              handle, TableEntries(content[SourceFile(handle, fd)].parts, 1))

(***************************************************************************)
(* The outcome of an operation: how it ended ("ok" or the exception it     *)
(* raised), the address or boolean it returned, the names that matched,    *)
(* whether the catalog was built, the native calls made in order, the list *)
(* symbols() returned and the diagnostic carried by the exception.         *)
(***************************************************************************)
Outcome(outcome, addr, matches, built, calls, list, err) ==
    [outcome |-> outcome, addr |-> addr, matches |-> matches, built |-> built,
     calls |-> calls, list |-> list, err |-> err]

Raise(outcome, err) == Outcome(outcome, 0, <<>>, FALSE, <<>>, <<>>, err)

(***************************************************************************)
(* src/dylib.cpp: library::symbols and library::get_symbol.                *)
(***************************************************************************)
\* The try block of symbols() around the catalog the internal get_symbols
\* answered.
\* catch (const std::runtime_error &) does not catch the std::string the
\* reader throws: it leaves symbols() as it is.
SymbolsOf(internal_symbols) ==
    IF internal_symbols.err = Fault
    THEN Outcome(Fault, 0, <<>>, TRUE, <<>>, <<>>, "")
    ELSE IF internal_symbols.err # ""
    THEN Outcome("std::string", 0, <<>>, TRUE, <<>>, <<>>, internal_symbols.err)
    ELSE Outcome("ok", 0, <<>>, TRUE, internal_symbols.calls, internal_symbols.list, "")

library_symbols(handle, fd) ==
    IF handle = 0
    THEN Raise("logic_error", "Attempted to use a moved library object")
    ELSE SymbolsOf(get_symbols_info(handle, fd))

\* A match test that accepts every continuation of the requested name: what
\* the test on the character after the prefix is there to exclude.
IsPrefix(demangled, symbol_name) == MatchAt(demangled, symbol_name, 1)

\* demangled.find(symbol_name) == 0 &&
\* (demangled.size() == symbol_name_len || demangled[symbol_name_len] == '(')
IsMatch(demangled, symbol_name) ==
    /\ MatchAt(demangled, symbol_name, 1)
    /\ \/ Len(demangled) = Len(symbol_name)
       \/ demangled[Len(symbol_name) + 1] = "("

\* A loop body without `if (!sym.loadable) continue;`.
MatchesWhateverLoadable(sym, symbol_name) ==
    IsMatch(demangle_symbol(platform, sym.name), symbol_name)

\* The body of the loop over symbols(): does this entry count as a match.
Matches(sym, symbol_name) ==
    /\ sym.loadable
    /\ IsMatch(demangle_symbol(platform, sym.name), symbol_name)

\* The raw names collected in matching_symbols, in catalog order.
RECURSIVE matching_symbols(_, _, _)
matching_symbols(list, symbol_name, i) ==
    IF i > Len(list) THEN <<>>
    ELSE (IF Matches(list[i], symbol_name) THEN <<list[i].name>> ELSE <<>>)
           \o matching_symbols(list, symbol_name, i + 1)

\* get_error_description(): dlerror() / GetLastError() after the native
\* calls made so far, the description of the last lookup among them that
\* failed.
FailedCalls(calls) ==
    {i \in 1..Len(calls) :
        calls[i][1] = "locate_symbol" /\ locate_symbol(calls[i][2], calls[i][3]) = 0}

LastFailed(calls, failed) ==
    IF failed = {} THEN <<"Unknown error">>
    ELSE <<"undefined symbol", calls[CHOOSE i \in failed : \A j \in failed : j <= i][3]>>

get_error_description(calls) == LastFailed(calls, FailedCalls(calls))

\* case 1 of the switch: return locate_symbol(m_handle, front).  lost is the
\* loader no longer answering for a name it answered for while the catalog
\* was built.
LocateMatch(handle, name, lost) ==
    IF lost THEN 0 ELSE locate_symbol(handle, name)

\* A switch without case 0: an empty list of matches is reported like
\* several.
SwitchWithoutCaseZero(handle, found, lost, calls, initial_error) ==
    IF Len(found) = 1
    THEN Outcome("ok", LocateMatch(handle, found[1], lost), found, TRUE,
                 Append(calls, CallSym(handle, found[1])), <<>>, "")
    ELSE Outcome("symbol_multiple_matches", 0, found, TRUE, calls, <<>>,
                 "matching_symbols_display")

\* switch (matching_symbols.size()), after the direct lookup failed and the
\* catalog cat was read: direct is the call of the direct lookup.
Switch(handle, found, lost, calls, initial_error) ==
    CASE Len(found) = 0 ->
           Outcome("symbol_not_found", 0, found, TRUE, calls, <<>>, initial_error)
      [] Len(found) = 1 ->
           Outcome("ok", LocateMatch(handle, found[1], lost), found, TRUE,
                   Append(calls, CallSym(handle, found[1])), <<>>, "")
      [] OTHER ->
           Outcome("symbol_multiple_matches", 0, found, TRUE, calls, <<>>,
                   "matching_symbols_display")

\* A fallback that reads the error description after the catalog was
\* built instead of before.
FallbackLateError(handle, symbol_name, lost, direct, cat) ==
    IF cat.outcome # "ok"
    THEN [cat EXCEPT !.calls = direct]
    ELSE Switch(handle, matching_symbols(cat.list, symbol_name, 1), lost, direct \o cat.calls,
                get_error_description(direct \o cat.calls))

\* initial_error = get_error_description() is read when the direct lookup
\* is the only native call made.
Fallback(handle, symbol_name, lost, direct, cat) ==
    IF cat.outcome # "ok"
    THEN [cat EXCEPT !.calls = direct]
    ELSE Switch(handle, matching_symbols(cat.list, symbol_name, 1), lost, direct \o cat.calls,
                get_error_description(direct))

\* Three variants of get_symbol that each leave out one of its steps; the
\* properties of that step must tell each from the code's get_symbol.
\* Without the handle check:
get_symbol_without_handle_check(handle, fd, symbol_name, lost) ==
    IF symbol_name = Null \/ symbol_name = <<>>
    THEN Raise("invalid_argument", "The symbol name to lookup is null or empty")
    ELSE IF locate_symbol(handle, symbol_name) # 0
    THEN Outcome("ok", locate_symbol(handle, symbol_name), <<>>, FALSE,
                 <<CallSym(handle, symbol_name)>>, <<>>, "")
    ELSE Outcome("symbol_not_found", 0, <<>>, FALSE,
                 <<CallSym(handle, symbol_name)>>, <<>>, "initial_error")

\* With the handle check ahead of the checks of the name:
get_symbol_handle_first(handle, fd, symbol_name, lost) ==
    IF handle = 0
    THEN Raise("logic_error", "Attempted to use a moved library object")
    ELSE IF symbol_name = Null \/ symbol_name = <<>>
    THEN Raise("invalid_argument", "The symbol name to lookup is null or empty")
    ELSE IF locate_symbol(handle, symbol_name) # 0
    THEN Outcome("ok", locate_symbol(handle, symbol_name), <<>>, FALSE,
                 <<CallSym(handle, symbol_name)>>, <<>>, "")
    ELSE Fallback(handle, symbol_name, lost, <<CallSym(handle, symbol_name)>>,
                  library_symbols(handle, fd))

\* Without the return after a successful direct lookup:
get_symbol_without_fast_path(handle, fd, symbol_name, lost) ==
    IF symbol_name = Null \/ symbol_name = <<>>
    THEN Raise("invalid_argument", "The symbol name to lookup is null or empty")
    ELSE IF handle = 0
    THEN Raise("logic_error", "Attempted to use a moved library object")
    ELSE Fallback(handle, symbol_name, lost, <<CallSym(handle, symbol_name)>>,
                  library_symbols(handle, fd))

library_get_symbol(handle, fd, symbol_name, lost) ==
    IF symbol_name = Null
    THEN Raise("invalid_argument", "The symbol name to lookup is null")
    ELSE IF symbol_name = <<>>
    THEN Raise("invalid_argument", "The symbol name to lookup is an empty string")
    ELSE IF handle = 0
    THEN Raise("logic_error", "Attempted to use a moved library object")
    ELSE IF locate_symbol(handle, symbol_name) # 0
    THEN Outcome("ok", locate_symbol(handle, symbol_name), <<>>, FALSE,
                 <<CallSym(handle, symbol_name)>>, <<>>, "")
    ELSE Fallback(handle, symbol_name, lost, <<CallSym(handle, symbol_name)>>,
                  library_symbols(handle, fd))

(***************************************************************************)
(* include/dylib.hpp: dylib::get_symbol and dylib::has_symbol.             *)
(***************************************************************************)
dylib_get_symbol(handle, symbol_name) ==
    IF symbol_name = Null THEN Raise("invalid_argument", "Null parameter")
    ELSE IF handle = 0
    THEN Raise("logic_error", "The dynamic library handle is null")
    ELSE LET symbol == locate_symbol(handle, symbol_name)
         IN  IF symbol = 0
             THEN Outcome("symbol_error", 0, <<>>, FALSE,
                          <<CallSym(handle, symbol_name)>>, <<>>, "Could not get symbol")
             ELSE Outcome("ok", symbol, <<>>, FALSE,
                          <<CallSym(handle, symbol_name)>>, <<>>, "")

\* A has_symbol written on get_symbol without catching what it raises.
has_symbol_unguarded(handle, symbol_name) ==
    LET r == dylib_get_symbol(handle, symbol_name)
    IN  Outcome(r.outcome, IF r.outcome = "ok" THEN 1 ELSE 0, <<>>, FALSE,
                r.calls, <<>>, r.err)

\* The boolean answer is returned in addr: 1 for true, 0 for false.
dylib_has_symbol(handle, symbol_name) ==
    IF handle = 0 \/ symbol_name = Null
    THEN Outcome("ok", 0, <<>>, FALSE, <<>>, <<>>, "")
    ELSE Outcome("ok", IF locate_symbol(handle, symbol_name) # 0 THEN 1 ELSE 0, <<>>, FALSE,
                 <<CallSym(handle, symbol_name)>>, <<>>, "")

(***************************************************************************)
(* DyLib.hpp: DyLib::getFunction and DyLib::getVariable (the same checks). *)
(***************************************************************************)
DyLib_getFunction(handle, name) ==
    IF handle = 0 THEN Raise("handle_error", "Error : no dynamic library loaded")
    ELSE IF name = Null THEN Raise("symbol_error", "Error while loading function : (nullptr)")
    ELSE LET sym == locate_symbol(handle, name)
         IN  IF sym = 0
             THEN Outcome("symbol_error", 0, <<>>, FALSE,
                          <<CallSym(handle, name)>>, <<>>, "Error while loading function")
             ELSE Outcome("ok", sym, <<>>, FALSE, <<CallSym(handle, name)>>, <<>>, "")

\* get_symbol / getFunction of the revision in use.
get_symbol(handle, fd, name, lost) ==
    CASE rev = "library" -> library_get_symbol(handle, fd, name, lost)
      [] rev = "dylib" -> dylib_get_symbol(handle, name)
      [] OTHER -> DyLib_getFunction(handle, name)

(***************************************************************************)
(* Library paths and filename decorations.                                 *)
(***************************************************************************)
Slash == "/"
Backslash == "\\"

decorations_none == [prefix |-> <<>>, suffix |-> <<>>]

decorations_os_default ==
    [prefix |-> IF platform = "win" THEN <<>> ELSE <<"l", "i", "b">>,
     suffix |-> CASE platform = "win" -> <<".", "d", "l", "l">>
                  [] platform = "mac" -> <<".", "d", "y", "l", "i", "b">>
                  [] OTHER -> <<".", "s", "o">>]

Decorations == {decorations_none, decorations_os_default}

\* The file system: file 1 is ./x (also reachable as ./x with the platform
\* suffix), file 2 carries the platform's prefix and suffix around y.
FileAt(path) ==
    CASE path = <<".", Slash, "x">> -> 1
      [] path = <<".", Slash, "x">> \o decorations_os_default.suffix -> 1
      [] path = <<".", Slash>> \o decorations_os_default.prefix \o <<"y">>
                  \o decorations_os_default.suffix -> 2
      [] OTHER -> 0

\* open_lib: the handle of the file at path, or 0.
open_lib(path) == FileAt(path)

Paths ==
    {Null, <<>>, <<"x">>, <<Slash>>, <<".", Slash>>, <<".", Slash, "x">>,
     <<".", Slash, "y">>, <<".", Backslash, "x">>, <<".", Slash, "z">>}

\* A constructor without the test for an empty library name: a path that
\* names a directory goes on to the loader.
library_path_without_name_check(lib_path, decorations) ==
    IF lib_path = Null
    THEN [throw |-> "invalid_argument", lib |-> <<>>]
    ELSE LET lib == IF platform = "win"
                    THEN replace_occurrences(lib_path, <<Backslash>>, <<Slash>>)
                    ELSE lib_path
             last == FindLastOf(lib, Slash)
         IN  IF lib = <<>> \/ Find(lib, <<Slash>>, 1) = 0
             THEN [throw |-> "invalid_argument", lib |-> <<>>]
             ELSE [throw |-> "",
                   lib |-> SubSeq(lib, 1, last - 1) \o <<Slash>> \o decorations.prefix
                             \o SubSeq(lib, last + 1, Len(lib)) \o decorations.suffix]

\* library::library(const char *, decorations), up to the call of open_lib:
\* the path handed to the loader, or the exception raised before it.
library_path(lib_path, decorations) ==
    IF lib_path = Null
    THEN [throw |-> "invalid_argument", lib |-> <<>>]
    ELSE LET lib == IF platform = "win"
                    THEN replace_occurrences(lib_path, <<Backslash>>, <<Slash>>)
                    ELSE lib_path
             last == FindLastOf(lib, Slash)
             lib_name == SubSeq(lib, last + 1, Len(lib))
             lib_dir == SubSeq(lib, 1, last - 1)
         IN  IF lib = <<>> THEN [throw |-> "invalid_argument", lib |-> <<>>]
             ELSE IF Find(lib, <<Slash>>, 1) = 0
             THEN [throw |-> "invalid_argument", lib |-> <<>>]
             ELSE IF lib_name = <<>>
             THEN [throw |-> "invalid_argument", lib |-> <<>>]
             ELSE [throw |-> "",
                   lib |-> lib_dir \o <<Slash>> \o decorations.prefix
                             \o lib_name \o decorations.suffix]

(***************************************************************************)
(* The record left in res by an operation.                                 *)
(***************************************************************************)
Record(op, obj, other, name, out) ==
    [op |-> op, obj |-> obj, other |-> other, name |-> name,
     pre |-> m_handle, preFd |-> m_fd,
     outcome |-> out.outcome, addr |-> out.addr, matches |-> out.matches,
     built |-> out.built, calls |-> out.calls, list |-> out.list, err |-> out.err]

\* Between two operations nothing is recorded: the caller has taken the
\* outcome of the last one.
IdleRes ==
    [op |-> "idle", obj |-> 0, other |-> 0, name |-> <<>>,
     pre |-> [o \in Objs |-> 0], preFd |-> [o \in Objs |-> -1],
     outcome |-> "ok", addr |-> 0, matches |-> <<>>, built |-> FALSE,
     calls |-> <<>>, list |-> <<>>, err |-> ""]

Idle == res.op = "idle"

Done(calls) == Outcome("ok", 0, <<>>, FALSE, calls, <<>>, "")

TotalOpens == opens[1] + opens[2]

\* The second library file is the same on every run of a platform; the
\* first varies over the platform's containers.
SecondContainer(plat) ==
    CASE plat = "linux" -> ElfSingle
      [] plat = "mac" -> MachFat
      [] plat = "win" -> PeSingle

Init ==
    /\ platform \in Platforms
    /\ rev \in Revisions
    /\ content \in {[f \in Files |-> IF f = 1 THEN c ELSE SecondContainer(platform)] :
                        c \in Containers(platform)}
    /\ alive = [o \in Objs |-> FALSE]
    /\ m_handle = [o \in Objs |-> 0]
    /\ m_fd = [o \in Objs |-> -1]
    /\ opens = [f \in Files |-> 0]
    /\ closes = [f \in Files |-> 0]
    /\ fdFile = <<>>
    /\ fdPos = <<>>
    /\ fdOpen = {}
    /\ res = IdleRes

(***************************************************************************)
(* src/dylib.cpp: construction from a path.  fdok is whether open() on the *)
(* library file succeeds (macOS).                                          *)
(***************************************************************************)
Construct(o, lib_path, decorations, fdok) ==
    /\ Idle
    /\ rev = "library"
    /\ ~alive[o]
    /\ LET p == library_path(lib_path, decorations)
           h == open_lib(p.lib)
       IN  IF p.throw # ""
           THEN /\ res' = Record("construct", o, decorations, lib_path, Raise(p.throw, ""))
                /\ UNCHANGED <<alive, m_handle, m_fd, opens, closes, fdFile, fdPos, fdOpen>>
           ELSE IF h = 0
           THEN /\ res' = Record("construct", o, decorations, lib_path,
                                 Outcome("load_error", 0, <<>>, FALSE,
                                         <<CallOpen(p.lib)>>, <<>>, "Could not load library"))
                /\ UNCHANGED <<alive, m_handle, m_fd, opens, closes, fdFile, fdPos, fdOpen>>
           ELSE /\ TotalOpens < MaxOpens
                /\ opens' = [opens EXCEPT ![h] = @ + 1]
                /\ IF platform # "mac"
                   THEN /\ alive' = [alive EXCEPT ![o] = TRUE]
                        /\ m_handle' = [m_handle EXCEPT ![o] = h]
                        /\ res' = Record("construct", o, decorations, lib_path,
                                         Done(<<CallOpen(p.lib)>>))
                        /\ UNCHANGED <<m_fd, fdFile, fdPos, fdOpen>>
                   ELSE IF fdok
                   THEN /\ alive' = [alive EXCEPT ![o] = TRUE]
                        /\ m_handle' = [m_handle EXCEPT ![o] = h]
                        /\ fdFile' = Append(fdFile, h)
                        /\ fdPos' = Append(fdPos, 0)
                        /\ fdOpen' = fdOpen \cup {Len(fdFile) + 1}
                        /\ m_fd' = [m_fd EXCEPT ![o] = Len(fdFile) + 1]
                        /\ res' = Record("construct", o, decorations, lib_path,
                                         Done(<<CallOpen(p.lib), CallFdOpen(p.lib)>>))
                   ELSE \* the constructor throws: no destructor runs
                        /\ res' = Record("construct", o, decorations, lib_path,
                                         Outcome("load_error", 0, <<>>, FALSE,
                                                 <<CallOpen(p.lib), CallFdOpen(p.lib)>>,
                                                 <<>>, "Could not open file"))
                        /\ UNCHANGED <<alive, m_handle, m_fd, fdFile, fdPos, fdOpen>>
                /\ UNCHANGED closes
    /\ UNCHANGED <<platform, rev, content>>

(***************************************************************************)
(* include/dylib.hpp: dylib::dylib(dir_path, lib_name, decorations).       *)
(***************************************************************************)
DirPaths == {Null, <<>>, <<".">>, <<".", Slash>>}
LibNames == {Null, <<"x">>, <<"y">>}

dylib_path(dir_path, lib_name, decorations) ==
    LET final_name == IF decorations
                      THEN decorations_os_default.prefix \o lib_name
                             \o decorations_os_default.suffix
                      ELSE lib_name
        final_path == IF dir_path # <<>> /\ FindLastOf(dir_path, Slash) # Len(dir_path)
                      THEN dir_path \o <<Slash>>
                      ELSE dir_path
    IN  final_path \o final_name

ConstructDylib(o, dir_path, lib_name, decorations) ==
    /\ Idle
    /\ rev = "dylib"
    /\ ~alive[o]
    /\ IF dir_path = Null \/ lib_name = Null
       THEN /\ res' = Record("construct", o, 0, <<>>, Raise("invalid_argument", "Null parameter"))
            /\ UNCHANGED <<alive, m_handle, opens>>
       ELSE LET path == dylib_path(dir_path, lib_name, decorations)
                h == open_lib(path)
            IN  IF h = 0
                THEN /\ res' = Record("construct", o, 0, path,
                                      Outcome("load_error", 0, <<>>, FALSE,
                                              <<CallOpen(path)>>, <<>>, "get_error_description"))
                     /\ UNCHANGED <<alive, m_handle, opens>>
                ELSE /\ TotalOpens < MaxOpens
                     /\ opens' = [opens EXCEPT ![h] = @ + 1]
                     /\ alive' = [alive EXCEPT ![o] = TRUE]
                     /\ m_handle' = [m_handle EXCEPT ![o] = h]
                     /\ res' = Record("construct", o, 0, path, Done(<<CallOpen(path)>>))
    /\ UNCHANGED <<platform, rev, content, m_fd, closes, fdFile, fdPos, fdOpen>>

(***************************************************************************)
(* DyLib.hpp: the default constructor, open (also run by the constructors  *)
(* that take a path) and close.                                            *)
(***************************************************************************)
DefaultConstruct(o) ==
    /\ Idle
    /\ rev = "DyLib"
    /\ ~alive[o]
    /\ alive' = [alive EXCEPT ![o] = TRUE]
    /\ res' = Record("default_construct", o, 0, <<>>, Done(<<>>))
    /\ UNCHANGED <<platform, rev, content, m_handle, m_fd, opens, closes, fdFile, fdPos, fdOpen>>

DyLibPaths ==
    {Null, <<".", Slash, "x">>, <<".", Slash, "z">>,
     <<".", Slash>> \o decorations_os_default.prefix \o <<"y">>}

\* DyLib::extension
extension == decorations_os_default.suffix

\* A close() without the test of the handle: closeLib() is always called.
CloseCallsUnchecked(h) == <<CallClose(h)>>

\* The calls close() makes on a handle: closeLib() when it is not null.
CloseCalls(h) == IF h # 0 THEN <<CallClose(h)>> ELSE <<>>

\* A close that releases two references of the handle: the one of the
\* object and one more.
ClosedTwice(h) == IF h # 0 THEN [closes EXCEPT ![h] = @ + 2] ELSE closes

\* closes after close() ran on a handle.
Closed(h) == IF h # 0 THEN [closes EXCEPT ![h] = @ + 1] ELSE closes

\* An open that does not call close() first: the handle held before is not
\* unloaded, and is still held when the load fails.
OpenWithoutClose(o, path, withExt, ext) ==
    /\ Idle
    /\ rev = "DyLib"
    /\ LET old == m_handle[o]
           full == IF withExt THEN path \o ext ELSE path
           bad == IF withExt THEN ext = Null ELSE path = Null
           h == IF bad THEN 0 ELSE open_lib(full)
       IN  /\ withExt => path # Null
           /\ UNCHANGED closes
           /\ IF bad \/ h = 0
              THEN /\ res' = Record("open", o, 0, IF bad THEN Null ELSE full,
                                    Outcome("handle_error", 0, <<>>, FALSE,
                                            IF bad THEN <<>> ELSE <<CallOpen(full)>>,
                                            <<>>, "Error while loading the dynamic library"))
                   /\ UNCHANGED <<alive, opens, m_handle>>
              ELSE /\ TotalOpens < MaxOpens
                   /\ opens' = [opens EXCEPT ![h] = @ + 1]
                   /\ m_handle' = [m_handle EXCEPT ![o] = h]
                   /\ alive' = [alive EXCEPT ![o] = TRUE]
                   /\ res' = Record("open", o, 0, full, Done(<<CallOpen(full)>>))
    /\ UNCHANGED <<platform, rev, content, m_fd, fdFile, fdPos, fdOpen>>

\* open(path) when withExt is false, open(path, ext) when it is true; on an
\* object that is not alive this is the constructor DyLib(path[, ext]), and
\* an exception leaves no object.
Open(o, path, withExt, ext) ==
    /\ Idle
    /\ rev = "DyLib"
    /\ LET old == m_handle[o]
           full == IF withExt THEN path \o ext ELSE path
           bad == IF withExt THEN ext = Null ELSE path = Null
           h == IF bad THEN 0 ELSE open_lib(full)
       IN  /\ withExt => path # Null
           /\ closes' = Closed(old)
           /\ IF bad \/ h = 0
              THEN /\ m_handle' = [m_handle EXCEPT ![o] = 0]
                   /\ res' = Record("open", o, 0, IF bad THEN Null ELSE full,
                                    Outcome("handle_error", 0, <<>>, FALSE,
                                            CloseCalls(old)
                                              \o (IF bad THEN <<>> ELSE <<CallOpen(full)>>),
                                            <<>>, "Error while loading the dynamic library"))
                   /\ UNCHANGED <<alive, opens>>
              ELSE /\ TotalOpens < MaxOpens
                   /\ opens' = [opens EXCEPT ![h] = @ + 1]
                   /\ m_handle' = [m_handle EXCEPT ![o] = h]
                   /\ alive' = [alive EXCEPT ![o] = TRUE]
                   /\ res' = Record("open", o, 0, full,
                                    Done(CloseCalls(old) \o <<CallOpen(full)>>))
    /\ UNCHANGED <<platform, rev, content, m_fd, fdFile, fdPos, fdOpen>>

Close(o) ==
    /\ Idle
    /\ rev = "DyLib"
    /\ alive[o]
    /\ closes' = Closed(m_handle[o])
    /\ m_handle' = [m_handle EXCEPT ![o] = 0]
    /\ res' = Record("close", o, 0, <<>>, Done(CloseCalls(m_handle[o])))
    /\ UNCHANGED <<platform, rev, content, alive, m_fd, opens, fdFile, fdPos, fdOpen>>

(***************************************************************************)
(* Move construction, move assignment and destruction, per revision.       *)
(***************************************************************************)
\* A move constructor that copies: the new object takes the handle and the
\* descriptor and the source keeps them.
CopyConstruct(dst, src) ==
    /\ Idle
    /\ dst # src
    /\ ~alive[dst]
    /\ alive[src]
    /\ alive' = [alive EXCEPT ![dst] = TRUE]
    /\ m_handle' = [m_handle EXCEPT ![dst] = m_handle[src]]
    /\ m_fd' = [m_fd EXCEPT ![dst] = m_fd[src]]
    /\ res' = Record("move_construct", dst, src, <<>>, Done(<<>>))
    /\ UNCHANGED <<platform, rev, content, opens, closes, fdFile, fdPos, fdOpen>>

\* library(library &&other): swap with the new object's null members;
\* dylib(dylib &&) and DyLib(DyLib &&): take the handle, null the source.
MoveConstruct(dst, src) ==
    /\ Idle
    /\ dst # src
    /\ ~alive[dst]
    /\ alive[src]
    /\ alive' = [alive EXCEPT ![dst] = TRUE]
    /\ m_handle' = [m_handle EXCEPT ![dst] = m_handle[src], ![src] = 0]
    /\ m_fd' = IF rev = "library" /\ platform = "mac"
               THEN [m_fd EXCEPT ![dst] = m_fd[src], ![src] = -1]
               ELSE m_fd
    /\ res' = Record("move_construct", dst, src, <<>>, Done(<<>>))
    /\ UNCHANGED <<platform, rev, content, opens, closes, fdFile, fdPos, fdOpen>>

\* An assignment that overwrites the members of the target with the
\* source's instead of swapping or closing them.
MoveAssignOverwrite(dst, src) ==
    /\ Idle
    /\ alive[dst]
    /\ alive[src]
    /\ dst # src
    /\ m_handle' = [m_handle EXCEPT ![dst] = m_handle[src], ![src] = 0]
    /\ m_fd' = [m_fd EXCEPT ![dst] = m_fd[src], ![src] = -1]
    /\ res' = Record("move_assign", dst, src, <<>>, Done(<<>>))
    /\ UNCHANGED <<platform, rev, content, alive, opens, closes, fdFile, fdPos, fdOpen>>

\* operator=(&&): library and dylib swap the members; DyLib closes its own
\* handle and takes the source's.  dst = src is self-assignment.
MoveAssign(dst, src) ==
    /\ Idle
    /\ alive[dst]
    /\ alive[src]
    /\ IF dst = src
       THEN /\ res' = Record("move_assign", dst, src, <<>>, Done(<<>>))
            /\ UNCHANGED <<m_handle, m_fd, closes>>
       ELSE IF rev = "DyLib"
       THEN /\ closes' = Closed(m_handle[dst])
            /\ m_handle' = [m_handle EXCEPT ![dst] = m_handle[src], ![src] = 0]
            /\ res' = Record("move_assign", dst, src, <<>>, Done(CloseCalls(m_handle[dst])))
            /\ UNCHANGED m_fd
       ELSE /\ m_handle' = [m_handle EXCEPT ![dst] = m_handle[src], ![src] = m_handle[dst]]
            /\ m_fd' = IF rev = "library" /\ platform = "mac"
                       THEN [m_fd EXCEPT ![dst] = m_fd[src], ![src] = m_fd[dst]]
                       ELSE m_fd
            /\ res' = Record("move_assign", dst, src, <<>>, Done(<<>>))
            /\ UNCHANGED closes
    /\ UNCHANGED <<platform, rev, content, alive, opens, fdFile, fdPos, fdOpen>>

\* close(fd): a closed descriptor is on no file and has no file offset.
Released(seq, fd) ==
    IF rev = "library" /\ platform = "mac" /\ fd \in DOMAIN seq
    THEN [seq EXCEPT ![fd] = 0]
    ELSE seq

\* A destructor that closes the descriptor before the handle.
DestroyDescriptorFirst(o) ==
    /\ Idle
    /\ alive[o]
    /\ alive' = [alive EXCEPT ![o] = FALSE]
    /\ closes' = Closed(m_handle[o])
    /\ fdOpen' = IF rev = "library" /\ platform = "mac" /\ m_fd[o] > -1
                 THEN fdOpen \ {m_fd[o]}
                 ELSE fdOpen
    /\ m_handle' = [m_handle EXCEPT ![o] = 0]
    /\ m_fd' = [m_fd EXCEPT ![o] = -1]
    /\ res' = Record("destroy", o, 0, <<>>,
                     Done((IF rev = "library" /\ platform = "mac" /\ m_fd[o] > -1
                           THEN <<CallFdClose(m_fd[o])>>
                           ELSE <<>>)
                          \o CloseCalls(m_handle[o])))
    /\ fdPos' = Released(fdPos, m_fd[o])
    /\ fdFile' = Released(fdFile, m_fd[o])
    /\ UNCHANGED <<platform, rev, content, opens>>

\* ~library: close_lib(m_handle) when not null, then close(m_fd) when > -1;
\* ~dylib and ~DyLib: close the handle when not null.
Destroy(o) ==
    /\ Idle
    /\ alive[o]
    /\ alive' = [alive EXCEPT ![o] = FALSE]
    /\ closes' = Closed(m_handle[o])
    /\ fdOpen' = IF rev = "library" /\ platform = "mac" /\ m_fd[o] > -1
                 THEN fdOpen \ {m_fd[o]}
                 ELSE fdOpen
    /\ m_handle' = [m_handle EXCEPT ![o] = 0]
    /\ m_fd' = [m_fd EXCEPT ![o] = -1]
    /\ res' = Record("destroy", o, 0, <<>>,
                     Done(CloseCalls(m_handle[o])
                          \o (IF rev = "library" /\ platform = "mac" /\ m_fd[o] > -1
                              THEN <<CallFdClose(m_fd[o])>>
                              ELSE <<>>)))
    /\ fdPos' = Released(fdPos, m_fd[o])
    /\ fdFile' = Released(fdFile, m_fd[o])
    /\ UNCHANGED <<platform, rev, content, opens>>

(***************************************************************************)
(* The queries.  A read of the symbols moves the offset of the descriptor  *)
(* it reads (macOS).                                                       *)
(***************************************************************************)
Sought(fd) ==
    IF platform = "mac" /\ fd \in DOMAIN fdPos
    THEN [fdPos EXCEPT ![fd] = PosAfterRead(fdFile[fd])]
    ELSE fdPos

GetSymbol(o, name, lost) ==
    /\ Idle
    /\ alive[o]
    /\ res' = Record("get_symbol", o, 0, name, get_symbol(m_handle[o], m_fd[o], name, lost))
    /\ fdPos' = IF res'.built THEN Sought(m_fd[o]) ELSE fdPos
    /\ UNCHANGED <<platform, rev, content, alive, m_handle, m_fd, opens, closes, fdFile, fdOpen>>

Symbols(o) ==
    /\ Idle
    /\ rev = "library"
    /\ alive[o]
    /\ res' = Record("symbols", o, 0, <<>>, library_symbols(m_handle[o], m_fd[o]))
    /\ fdPos' = IF res'.built THEN Sought(m_fd[o]) ELSE fdPos
    /\ UNCHANGED <<platform, rev, content, alive, m_handle, m_fd, opens, closes, fdFile, fdOpen>>

HasSymbol(o, name) ==
    /\ Idle
    /\ rev = "dylib"
    /\ alive[o]
    /\ res' = Record("has_symbol", o, 0, name, dylib_has_symbol(m_handle[o], name))
    /\ UNCHANGED <<platform, rev, content, alive, m_handle, m_fd, opens, closes, fdFile, fdPos, fdOpen>>

NativeHandle(o) ==
    /\ Idle
    /\ rev \in {"dylib", "library"}
    /\ alive[o]
    /\ res' = Record("native_handle", o, 0, <<>>,
                     Outcome("ok", m_handle[o], <<>>, FALSE, <<>>, <<>>, ""))
    /\ UNCHANGED <<platform, rev, content, alive, m_handle, m_fd, opens, closes, fdFile, fdPos, fdOpen>>

\* The caller takes the outcome of the operation (its return value or the
\* exception) and goes on.
Return ==
    /\ ~Idle
    /\ res.outcome # Fault
    /\ res' = IdleRes
    /\ UNCHANGED <<platform, rev, content, alive, m_handle, m_fd, opens, closes, fdFile, fdPos, fdOpen>>

Next ==
    \/ \E o \in Objs, p \in Paths, d \in Decorations, fdok \in BOOLEAN : Construct(o, p, d, fdok)
    \/ \E o \in Objs, dp \in DirPaths, n \in LibNames, d \in BOOLEAN : ConstructDylib(o, dp, n, d)
    \/ \E o \in Objs : DefaultConstruct(o)
    \/ \E o \in Objs, p \in DyLibPaths, w \in BOOLEAN, e \in {Null, extension} : Open(o, p, w, e)
    \/ \E o \in Objs : Close(o)
    \/ \E dst \in Objs, src \in Objs : MoveConstruct(dst, src)
    \/ \E dst \in Objs, src \in Objs : MoveAssign(dst, src)
    \/ \E o \in Objs : Destroy(o)
    \/ \E o \in Objs, n \in Requests, lost \in BOOLEAN : GetSymbol(o, n, lost)
    \/ \E o \in Objs : Symbols(o)
    \/ \E o \in Objs, n \in Requests : HasSymbol(o, n)
    \/ \E o \in Objs : NativeHandle(o)
    \/ Return

Spec == Init /\ [][Next]_vars

(***************************************************************************)
(* The reader on Mach-O images whose symbol table points past the end of   *)
(* the string table: libraries of src/dylib.cpp on macOS, the first file   *)
(* being such an image.                                                    *)
(***************************************************************************)
PastEndImages == {MachPastEnd(b, TRUE) : b \in Beyond} \cup {MachPastEnd(<<>>, FALSE)}

MachInit ==
    /\ platform = "mac"
    /\ rev = "library"
    /\ content \in {[f \in Files |-> IF f = 1 THEN c ELSE SecondContainer(platform)] :
                        c \in PastEndImages}
    /\ alive = [o \in Objs |-> FALSE]
    /\ m_handle = [o \in Objs |-> 0]
    /\ m_fd = [o \in Objs |-> -1]
    /\ opens = [f \in Files |-> 0]
    /\ closes = [f \in Files |-> 0]
    /\ fdFile = <<>>
    /\ fdPos = <<>>
    /\ fdOpen = {}
    /\ res = IdleRes

MachNext ==
    \/ \E o \in Objs, p \in Paths, d \in Decorations, fdok \in BOOLEAN : Construct(o, p, d, fdok)
    \/ \E o \in Objs : Destroy(o)
    \/ \E o \in Objs, n \in Requests, lost \in BOOLEAN : GetSymbol(o, n, lost)
    \/ \E o \in Objs : Symbols(o)
    \/ Return

MachSpec == MachInit /\ [][MachNext]_vars

(***************************************************************************)
(* format.cpp on its own: format_symbol applied to a text, and applied     *)
(* again to what it answered.  The texts are made of the pieces the rules  *)
(* of the two variants look for.  The text handed in is recorded in        *)
(* res.name, the text answered in res.list.                                *)
(***************************************************************************)
Tokens ==
    {<<"a">>, <<",">>, <<" ">>, <<"*">>, <<"&">>, <<"(">>, <<")">>, <<">">>, <<"<">>,
     <<"c", "l", "a", "s", "s", " ">>, <<"c", "o", "n", "s", "t">>,
     <<"s", "t", "d", ":", ":", "_", "_">>, <<"1", ":", ":">>,
     <<"[", "a", "b", "i", ":", "c", "x", "x", "1", "1", "]">>}

\* The texts made of k tokens.
RECURSIVE TokenTexts(_)
TokenTexts(k) ==
    IF k = 0 THEN {<<>>}
    ELSE {t \o tok : t \in TokenTexts(k - 1), tok \in Tokens}

Texts == UNION {TokenTexts(k) : k \in 0..MaxTokens}

FormatInit ==
    /\ platform \in Platforms
    /\ rev = "library"
    /\ content = [f \in Files |-> SecondContainer(platform)]
    /\ alive = [o \in Objs |-> FALSE]
    /\ m_handle = [o \in Objs |-> 0]
    /\ m_fd = [o \in Objs |-> -1]
    /\ opens = [f \in Files |-> 0]
    /\ closes = [f \in Files |-> 0]
    /\ fdFile = <<>>
    /\ fdPos = <<>>
    /\ fdOpen = {}
    /\ res = IdleRes

\* format_symbol(symbol)
FormatSymbol(symbol) ==
    /\ Idle
    /\ res' = Record("format_symbol", 0, 0, symbol,
                     Outcome("ok", 0, <<>>, FALSE, <<>>, format_symbol(platform, symbol), ""))
    /\ UNCHANGED <<platform, rev, content, alive, m_handle, m_fd, opens, closes, fdFile, fdPos, fdOpen>>

\* format_symbol on the text the last format_symbol answered.
FormatAgain ==
    /\ res.op = "format_symbol"
    /\ res' = Record("format_again", 0, 0, res.list,
                     Outcome("ok", 0, <<>>, FALSE, <<>>, format_symbol(platform, res.list), ""))
    /\ UNCHANGED <<platform, rev, content, alive, m_handle, m_fd, opens, closes, fdFile, fdPos, fdOpen>>

FormatNext ==
    \/ \E symbol \in Texts : FormatSymbol(symbol)
    \/ FormatAgain
    \/ Return

FormatSpec == FormatInit /\ [][FormatNext]_vars

(***************************************************************************)
(* Properties.  Each is stated on res, the record of the last operation:   *)
(* res.pre and res.preFd are the handles and descriptors the objects held  *)
(* when it began, the state variables what they hold after it.             *)
(***************************************************************************)
ValidName(n) == n # Null /\ n # <<>>

\* The handle-error class of the three revisions.
HandleErrors == {"logic_error", "handle_error"}

SeqSet(q) == {q[i] : i \in 1..Len(q)}

\* get_symbol of src/dylib.cpp went through the fuzzy fallback and the
\* catalog was read.
FellBack ==
    /\ res.op = "get_symbol"
    /\ rev = "library"
    /\ res.built
    /\ res.outcome # "std::string"

\* The catalog the last operation's object answers.
CatalogSeen == library_symbols(res.pre[res.obj], res.preFd[res.obj]).list

\* The text d starts with the request n, and what follows n in d is "(" or
\* the end of d.
StartsAndEnds(d, n) ==
    /\ Len(d) >= Len(n)
    /\ SubSeq(d, 1, Len(n)) = n
    /\ (Len(d) = Len(n) \/ d[Len(n) + 1] = "(")

\* The names of the loadable catalog entries whose demangled form, as
\* demangle_symbol answers it for the raw name, passes the test for n.
LoadableMatches(n) ==
    {e.name : e \in {x \in SeqSet(CatalogSeen) :
                        x.loadable /\ StartsAndEnds(demangle_symbol(platform, x.name), n)}}

\* C1: after a move construction or move assignment other = move(L) between
\* two distinct objects, whatever other held before, L holds the null handle
\* (it is Closed, so every later query on it fails with the handle error) and
\* other holds the handle, and the descriptor, L held before the move.
C1_MoveLeavesSourceClosed ==
    (res.op \in {"move_construct", "move_assign"} /\ res.obj # res.other) =>
        /\ m_handle[res.other] = 0
        /\ m_handle[res.obj] = res.pre[res.other]
        /\ m_fd[res.obj] = res.preFd[res.other]

\* C2: on an object whose handle is null, get_symbol with a valid name and
\* symbols() raise the handle error, has_symbol answers false, and no native
\* lookup is ever made with the null handle.
C2_ClosedHandleQueries ==
    /\ (res.op = "get_symbol" /\ res.pre[res.obj] = 0 /\ ValidName(res.name)) =>
           (res.outcome \in HandleErrors /\ res.addr = 0)
    /\ (res.op = "symbols" /\ res.pre[res.obj] = 0) =>
           (res.outcome \in HandleErrors /\ res.list = <<>>)
    /\ (res.op = "has_symbol" /\ res.pre[res.obj] = 0 /\ ValidName(res.name)) =>
           (res.outcome = "ok" /\ res.addr = 0)
    /\ \A i \in 1..Len(res.calls) :
           res.calls[i][1] = "locate_symbol" => res.calls[i][2] # 0

\* A moved-from library object was asked for an exported name and raised the
\* handle error.
C2_Witness ==
    /\ res.op = "get_symbol"
    /\ rev = "library"
    /\ res.pre[res.obj] = 0
    /\ res.name = C_a
    /\ res.outcome = "logic_error"

\* C3: get_symbol of src/dylib.cpp with a null or empty name raises
\* invalid_argument whether the object is Loaded or Closed, before the handle
\* is checked and before any native lookup or catalog read.
C3_InvalidNameFirst ==
    (res.op = "get_symbol" /\ rev = "library" /\ res.name \in {Null, <<>>}) =>
        /\ res.outcome = "invalid_argument"
        /\ res.calls = <<>>
        /\ ~res.built
        /\ res.addr = 0

\* A moved-from object was asked for the empty name: invalid_argument, not
\* the handle error.
C3_Witness ==
    /\ res.op = "get_symbol"
    /\ rev = "library"
    /\ res.pre[res.obj] = 0
    /\ res.name = <<>>
    /\ res.outcome = "invalid_argument"

\* C4: on a Loaded object, when the direct native lookup of the requested
\* name succeeds, get_symbol returns that address after that one lookup: the
\* catalog is not built, nothing is matched and no error is raised.
C4_FastPath ==
    (/\ res.op = "get_symbol"
     /\ res.pre[res.obj] # 0
     /\ ValidName(res.name)
     /\ locate_symbol(res.pre[res.obj], res.name) # 0) =>
        /\ res.outcome = "ok"
        /\ res.addr = locate_symbol(res.pre[res.obj], res.name)
        /\ ~res.built
        /\ res.matches = <<>>
        /\ res.calls = <<CallSym(res.pre[res.obj], res.name)>>

\* The directly loadable name n::f was returned from the fast path on a
\* library whose catalog holds two loadable overloads that match n::f.
C4_Witness ==
    /\ res.op = "get_symbol"
    /\ rev = "library"
    /\ res.name = C_nf
    /\ res.outcome = "ok"
    /\ res.addr # 0
    /\ ~res.built
    /\ Cardinality(LoadableMatches(C_nf)) >= 2

\* C5, as the code has it: when the direct lookup fails and the catalog is
\* read, the fuzzy matches are exactly the loadable catalog entries whose
\* demangled form, as demangle_symbol answers it for the raw name, starts
\* with the requested name followed by "(" or by the end of the text.
C5_LoadableFuzzyMatchSet ==
    FellBack => SeqSet(res.matches) = LoadableMatches(res.name)

\* C5, as stated: the fuzzy matches are exactly the catalog entries whose
\* demangled_name starts with the requested name followed by "(" or by the
\* end of the text.
C5_FuzzyMatchSet ==
    FellBack =>
        SeqSet(res.matches) =
            {e.name : e \in {x \in SeqSet(CatalogSeen) :
                                StartsAndEnds(x.demangled_name, res.name)}}

\* n::f was requested from a library that exports n::f(), n::f(d) and
\* n::f2(): the two overloads matched, n::f2() did not.
C5_Witness ==
    /\ FellBack
    /\ res.name = C_nf
    /\ Len(res.matches) = 2
    /\ \E e \in SeqSet(CatalogSeen) :
           /\ e.loadable
           /\ e.name \notin SeqSet(res.matches)
           /\ IsPrefix(demangle_symbol(platform, e.name), C_nf)

C7_NoMatchNotFound ==
    (FellBack /\ LoadableMatches(res.name) = {}) =>
        /\ res.outcome = "symbol_not_found"
        /\ res.addr = 0
        /\ res.matches = <<>>

\* A name no entry matches was requested from a Loaded library whose catalog
\* is not empty.
C7_Witness ==
    /\ FellBack
    /\ res.name = <<"z", "z">>
    /\ CatalogSeen # <<>>
    /\ res.outcome = "symbol_not_found"

\* C8: when exactly one catalog entry matches, get_symbol makes a native
\* lookup of that entry's raw name and raises symbol_not_found when it
\* fails; every successful return of get_symbol is a non-null address.
C8_OneMatchChecked ==
    /\ (FellBack /\ Len(res.matches) = 1) =>
           /\ res.calls[Len(res.calls)] = CallSym(res.pre[res.obj], res.matches[1])
           /\ res.outcome \in {"ok", "symbol_not_found"}
    /\ (res.op = "get_symbol" /\ res.outcome = "ok") => res.addr # 0

\* C9: no two entries of the list symbols() answers share a raw name.
C9_CatalogDedup ==
    (res.op = "symbols" /\ res.outcome = "ok") =>
        \A i, j \in 1..Len(res.list) :
            res.list[i].name = res.list[j].name => i = j

\* C10: an entry of the list symbols() answers is loadable exactly when the
\* native lookup of its name on the object's handle is not null.
C10_LoadableIffLookup ==
    (res.op = "symbols" /\ res.outcome = "ok") =>
        \A i \in 1..Len(res.list) :
            res.list[i].loadable <=>
                locate_symbol(res.pre[res.obj], res.list[i].name) # 0

\* The name the catalog lists a stored name under: on Mach-O the stored name
\* without its one leading underscore.
CatalogName(n) == IF platform = "mac" /\ n[1] = "_" THEN Tail(n) ELSE n

\* The non-empty names the tables of the object's file store.
StoredNames ==
    {n \in SeqSet(TableEntries(content[SourceFile(res.pre[res.obj], res.preFd[res.obj])].parts, 1)) :
        ValidName(n)}

ReaderDiagnostic ==
    get_symbols(res.pre[res.obj], res.preFd[res.obj], FALSE, FALSE).err

\* The last operation read the container: symbols(), or a get_symbol whose
\* direct lookup failed, on a Loaded object of src/dylib.cpp.
ReadContainer ==
    /\ rev = "library"
    /\ res.op \in {"symbols", "get_symbol"}
    /\ res.pre[res.obj] # 0
    /\ res.op = "get_symbol" =>
           (ValidName(res.name) /\ locate_symbol(res.pre[res.obj], res.name) = 0)

\* C12: when the container reader fails on its input, symbols() and the
\* fallback of get_symbol raise symbol_collection_error carrying the reader's
\* diagnostic, and return no list, no match and no address.
C12_ReaderFailureIsCollectionError ==
    (ReadContainer /\ ReaderDiagnostic # "") =>
        /\ res.outcome = "symbol_collection_error"
        /\ res.err = ReaderDiagnostic
        /\ res.list = <<>>
        /\ res.matches = <<>>
        /\ res.addr = 0

\* C13: has_symbol of include/dylib.hpp raises nothing, whatever the state
\* of the object (Loaded, moved-from) and the name (null, empty, unknown,
\* exported): it answers a boolean, true exactly when get_symbol on the same
\* object and name returns an address, false whenever get_symbol would raise
\* any of its errors.
C13_HasSymbolNeverFails ==
    res.op = "has_symbol" =>
        /\ res.outcome = "ok"
        /\ res.err = ""
        /\ res.addr \in {0, 1}
        /\ res.addr = 1 <=> dylib_get_symbol(res.pre[res.obj], res.name).outcome = "ok"

\* has_symbol answered false for a null name on a moved-from object, where
\* get_symbol raises invalid_argument.
C13_Witness ==
    /\ res.op = "has_symbol"
    /\ res.pre[res.obj] = 0
    /\ res.name = Null
    /\ res.outcome = "ok"
    /\ res.addr = 0
    /\ dylib_get_symbol(res.pre[res.obj], res.name).outcome = "invalid_argument"

\* The objects that hold the native handle h.
Holders(h) == {o \in Objs : m_handle[o] = h}

\* C14: DyLib::close raises nothing and leaves the object Closed; on an
\* object that is already Closed, or was never opened, it makes no native
\* call, and on a Loaded one exactly the one closeLib of its handle.  Every
\* open of a handle is thus released once and no more, however often close
\* is called: the opens of a handle are its closes plus the objects that
\* still hold it.
C14_CloseIdempotent ==
    /\ res.op = "close" =>
           /\ res.outcome = "ok"
           /\ m_handle[res.obj] = 0
           /\ res.calls = IF res.pre[res.obj] = 0
                          THEN <<>>
                          ELSE <<CallClose(res.pre[res.obj])>>
    /\ rev = "DyLib" =>
           \A h \in Files : opens[h] = closes[h] + Cardinality(Holders(h))

\* close was called on an object that holds no handle, after the one handle
\* opened in the run was released: the handle stays released once.
C14_Witness ==
    /\ res.op = "close"
    /\ res.pre[res.obj] = 0
    /\ res.calls = <<>>
    /\ opens[1] = 1
    /\ closes[1] = 1
    /\ \A o \in Objs : alive[o] <=> o = res.obj

\* C15: format_symbol is idempotent in both variants: applied to a text it
\* answered, it answers that text again.
C15_FormatIdempotent ==
    res.op = "format_again" => res.list = res.name

\* The path as the constructor reads it: on Windows every backslash is a
\* "/".
Normalized(p) ==
    IF platform = "win"
    THEN [i \in 1..Len(p) |-> IF p[i] = Backslash THEN Slash ELSE p[i]]
    ELSE p

\* A path the constructor must refuse: null, empty, without "/" or ending
\* with "/".
InvalidPath(p) ==
    \/ p = Null
    \/ p = <<>>
    \/ \A i \in 1..Len(p) : Normalized(p)[i] # Slash
    \/ Normalized(p)[Len(p)] = Slash

\* dir + "/" + prefix + name + suffix, dir and name being what stands before
\* and after the last "/" of the path.
DecoratedPath(p, d) ==
    LET n == Normalized(p)
        k == CHOOSE i \in 1..Len(n) : n[i] = Slash /\ \A j \in (i + 1)..Len(n) : n[j] # Slash
    IN  SubSeq(n, 1, k - 1) \o <<Slash>> \o d.prefix \o SubSeq(n, k + 1, Len(n)) \o d.suffix

\* The calls of the loader's open among the native calls of the last
\* operation.
OpenCalls == SelectSeq(res.calls, LAMBDA c : c[1] = "open_lib")

\* C16: the constructor of src/dylib.cpp raises invalid_argument, with no
\* call of the loader, for a path that is null, empty, without "/" or ending
\* with "/" (on Windows after its backslashes are read as "/"); for every
\* other path it calls the loader once, on dir + "/" + prefix + name +
\* suffix, and ends with a Loaded object or with load_error, load_error
\* whenever the loader answers null.
C16_ConstructorPaths ==
    (res.op = "construct" /\ rev = "library") =>
        IF InvalidPath(res.name)
        THEN /\ res.outcome = "invalid_argument"
             /\ res.calls = <<>>
             /\ m_handle[res.obj] = 0
        ELSE /\ OpenCalls = <<CallOpen(DecoratedPath(res.name, res.other))>>
             /\ res.outcome \in {"ok", "load_error"}
             /\ FileAt(DecoratedPath(res.name, res.other)) = 0 => res.outcome = "load_error"
             /\ res.outcome = "ok" =>
                    m_handle[res.obj] = FileAt(DecoratedPath(res.name, res.other))

\* The constructor was given ./z with the platform's decorations, called
\* the loader on the decorated path, and raised load_error.
C16_Witness ==
    /\ res.op = "construct"
    /\ rev = "library"
    /\ res.name = <<".", Slash, "z">>
    /\ res.other = decorations_os_default
    /\ res.outcome = "load_error"
    /\ res.calls = <<CallOpen(<<".", Slash>> \o decorations_os_default.prefix \o <<"z">>
                                \o decorations_os_default.suffix)>>

\* symbols() answered for a Mach-O fat file.
FatListed ==
    /\ res.op = "symbols"
    /\ res.outcome = "ok"
    /\ platform = "mac"
    /\ content[SourceFile(res.pre[res.obj], res.preFd[res.obj])].fmt = "fat"

\* C17: for a Mach-O fat file every slice is read: the names of the list
\* symbols() answers are the union of the names of all slices, each unique
\* name listed once, and an entry is loadable only if the native lookup of
\* its name on the object's handle answers an address.
C17_FatUnion ==
    FatListed =>
        /\ {res.list[i].name : i \in 1..Len(res.list)} = {CatalogName(n) : n \in StoredNames}
        /\ \A i, j \in 1..Len(res.list) : res.list[i].name = res.list[j].name => i = j
        /\ \A i \in 1..Len(res.list) :
               res.list[i].loadable =>
                   locate_symbol(res.pre[res.obj], res.list[i].name) # 0

\* The exported names of the loaded file h whose demangled text is the
\* function name n followed by a parameter list: the overloads of n.
Overloads(h, n) ==
    {z \in content[h].dyn :
        LET d == demangle_symbol(platform, z)
        IN  Len(d) > Len(n) /\ SubSeq(d, 1, Len(n)) = n /\ d[Len(n) + 1] = "("}

Involved ==
    IF res.op \in {"move_construct", "move_assign"} THEN {res.obj, res.other} ELSE {res.obj}

\* The references of the native handle h the loader still counts: the file
\* stays loaded, and its symbols resolvable, while there is one.
LiveReferences(h) == opens[h] - closes[h]

C20_ExclusiveReference ==
    /\ \A o1, o2 \in Objs : (o1 # o2 /\ m_fd[o1] > -1) => m_fd[o1] # m_fd[o2]
    /\ \A h \in Files : Cardinality(Holders(h)) <= LiveReferences(h)
    /\ \A o \in Objs : ~alive[o] => (m_handle[o] = 0 /\ m_fd[o] = -1)

\* C20, as stated: no two objects hold the same non-null native handle, nor
\* the same open file descriptor.
C20_ExclusiveHandle ==
    \A o1, o2 \in Objs :
        o1 # o2 =>
            /\ m_handle[o1] # 0 => m_handle[o1] # m_handle[o2]
            /\ m_fd[o1] > -1 => m_fd[o1] # m_fd[o2]

\* Two objects were constructed on the same file on macOS: they hold the
\* same handle, of which the loader counts two references, and two
\* descriptors.
C20_Witness ==
    /\ res.op = "construct"
    /\ res.outcome = "ok"
    /\ platform = "mac"
    /\ m_handle[1] # 0
    /\ m_handle[1] = m_handle[2]
    /\ LiveReferences(m_handle[1]) = 2
    /\ m_fd[1] > -1
    /\ m_fd[2] > -1
    /\ m_fd[1] # m_fd[2]

\* C21: destroying a Loaded library object of src/dylib.cpp that owns a
\* handle and a file descriptor makes two native calls, in this order: the
\* loader's close of the handle, then close of the descriptor; each is made
\* once, one reference of the handle is released and the descriptor is no
\* longer open.
C21_ReleaseOrder ==
    (/\ res.op = "destroy"
     /\ rev = "library"
     /\ res.pre[res.obj] # 0
     /\ res.preFd[res.obj] > -1) =>
        /\ res.calls = <<CallClose(res.pre[res.obj]), CallFdClose(res.preFd[res.obj])>>
        /\ res.preFd[res.obj] \notin fdOpen
        /\ m_handle[res.obj] = 0
        /\ m_fd[res.obj] = -1

\* A library object constructed on macOS, holding a handle and a descriptor,
\* was destroyed.
C21_Witness ==
    /\ res.op = "destroy"
    /\ rev = "library"
    /\ platform = "mac"
    /\ res.pre[res.obj] # 0
    /\ res.preFd[res.obj] > -1
    /\ Len(res.calls) = 2
    /\ closes[res.pre[res.obj]] = 1

\* What DyLib::open does, on an object in any state: it first unloads the
\* handle the object holds; the object is then Loaded, with the handle the
\* loader returned for the path, exactly when the load succeeded; when it
\* fails (null path, null extension, loader failure) handle_error is raised
\* and the object is Closed, holding neither the previous handle nor any
\* other.
OpenReplaces ==
    (res.op = "open" /\ rev = "DyLib") =>
        /\ res.pre[res.obj] # 0 =>
               (res.calls # <<>> /\ res.calls[1] = CallClose(res.pre[res.obj]))
        /\ res.outcome \in {"ok", "handle_error"}
        /\ res.outcome = "ok" <=> (res.name # Null /\ FileAt(res.name) # 0)
        /\ res.outcome = "ok" =>
               /\ m_handle[res.obj] = FileAt(res.name)
               /\ res.calls # <<>>
               /\ res.calls[Len(res.calls)] = CallOpen(res.name)
        /\ res.outcome = "handle_error" => m_handle[res.obj] = 0

\* C22, as the code has it: open() behaves as OpenReplaces says, and an
\* object of DyLib.hpp that was Closed holds a handle after an operation
\* only if the operation was an open on it, or a move assignment that handed
\* it the handle of the source.
C22_OpenOrMove ==
    /\ OpenReplaces
    /\ (rev = "DyLib" /\ res.op \notin {"idle", "move_construct"}) =>
           \A o \in Objs :
               (res.pre[o] = 0 /\ m_handle[o] # 0) =>
                   \/ res.op = "open" /\ o = res.obj
                   \/ /\ res.op = "move_assign"
                      /\ o = res.obj
                      /\ m_handle[o] = res.pre[res.other]

\* C22, as stated: open() behaves as OpenReplaces says, and an object that
\* was Closed holds a handle after an operation only if the operation was
\* an open on it.
C22_OnlyFreshOpen ==
    /\ OpenReplaces
    /\ (rev = "DyLib" /\ res.op \notin {"idle", "move_construct"}) =>
           \A o \in Objs :
               (res.pre[o] = 0 /\ m_handle[o] # 0) => (res.op = "open" /\ o = res.obj)

\* open() was called on a Loaded object with a path the loader does not
\* find: the old handle was unloaded and the object is Closed.
C22_Witness ==
    /\ res.op = "open"
    /\ res.pre[res.obj] # 0
    /\ res.outcome = "handle_error"
    /\ res.name # Null
    /\ res.calls = <<CallClose(res.pre[res.obj]), CallOpen(res.name)>>
    /\ m_handle[res.obj] = 0

\* C23: the description carried by symbol_not_found after the fuzzy fallback
\* is the loader's error for the direct lookup of the requested name: the
\* failing lookups made while the catalog was built do not replace it.
C23_InitialError ==
    (FellBack /\ res.outcome = "symbol_not_found") =>
        /\ res.calls[1] = CallSym(res.pre[res.obj], res.name)
        /\ res.err = <<"undefined symbol", res.name>>

\* get_symbol raised symbol_not_found after a catalog build in which the
\* lookup of another name failed later than the direct lookup.
C23_Witness ==
    /\ FellBack
    /\ res.outcome = "symbol_not_found"
    /\ res.name = <<"z", "z">>
    /\ res.err = <<"undefined symbol", res.name>>
    /\ \E i \in 2..Len(res.calls) :
           /\ res.calls[i][3] # res.name
           /\ locate_symbol(res.calls[i][2], res.calls[i][3]) = 0

\* C24: in the answer of the MSVC formatter every comma is followed by exactly
\* one space, whatever the input text, a comma already followed by spaces
\* included.
C24_OneSpaceAfterComma ==
    (res.op = "format_symbol" /\ platform = "win") =>
        \A i \in 1..Len(res.list) :
            res.list[i] = "," =>
                /\ i + 1 <= Len(res.list) /\ res.list[i + 1] = " "
                /\ (i + 2 <= Len(res.list) => res.list[i + 2] # " ")

\* The last operation is a symbols() that read a single-architecture Mach-O
\* image.
ReadThinImage ==
    /\ res.op = "symbols"
    /\ platform = "mac"
    /\ res.pre[res.obj] # 0
    /\ content[SourceFile(res.pre[res.obj], res.preFd[res.obj])].fmt \in {"macho64", "macho32"}

\* The non-empty names of a symbol table from entry j on, in table order,
\* each without its leading underscore.
RECURSIVE StrippedNames(_, _)
StrippedNames(syms, j) ==
    IF j > Len(syms) THEN <<>>
    ELSE (IF ValidName(syms[j]) THEN <<CatalogName(syms[j])>> ELSE <<>>)
           \o StrippedNames(syms, j + 1)

\* A sequence without the later occurrences of its elements.
RECURSIVE FirstOccurrences(_)
FirstOccurrences(seq) ==
    IF seq = <<>> THEN <<>>
    ELSE LET front == FirstOccurrences(SubSeq(seq, 1, Len(seq) - 1))
         IN  IF Contains(front, seq[Len(seq)]) THEN front
             ELSE Append(front, seq[Len(seq)])

\* The symbol table of the image the last operation read.
ThinTable == content[SourceFile(res.pre[res.obj], res.preFd[res.obj])].parts[1].syms

\* The names the reader answers for the file of the last operation's
\* object, asked for every name as the table stores it.
ReaderNames == get_symbols(res.pre[res.obj], res.preFd[res.obj], FALSE, FALSE).list

PastEntries ==
    UNION {content[SourceFile(res.pre[res.obj], res.preFd[res.obj])].parts[i].past :
              i \in 1..Len(content[SourceFile(res.pre[res.obj], res.preFd[res.obj])].parts)}

\* C26: a Mach-O image with a symbol whose string index is not smaller
\* than strsize is rejected with a collection error, and no name read past
\* the end of the string-table buffer reaches the list.
C26_RejectsIndexPastEnd ==
    (ReadContainer /\ platform = "mac" /\ PastEntries # {}) =>
        /\ res.outcome = "symbol_collection_error"
        /\ res.list = <<>>

\* The native handles the loader returned during the last operation.
HandlesObtained ==
    {open_lib(res.calls[i][3]) : i \in {j \in 1..Len(res.calls) : res.calls[j][1] = "open_lib"}}
        \ {0}

\* C27: when the construction of a library fails with load_error, every
\* native handle the loader returned during it was closed during it, no
\* descriptor was left open, and the object holds nothing.
C27_FailedConstructionReleases ==
    (res.op = "construct" /\ rev = "library" /\ res.outcome = "load_error") =>
        /\ \A h \in HandlesObtained :
               \E i \in 1..Len(res.calls) : res.calls[i] = CallClose(h)
        /\ \A h \in Files : LiveReferences(h) = Cardinality(Holders(h))
        /\ m_handle[res.obj] = 0
        /\ m_fd[res.obj] = -1

\* The references of the handle h the loader counts beyond one for each
\* object that holds it: the opens of h that were neither closed nor are
\* owned by an object.
Unowned(h) == LiveReferences(h) - Cardinality(Holders(h))

\* C28: every operation other than a construction that fails keeps, for
\* every handle, the opens of the handle equal to its closes plus the
\* objects that hold it: an open, a move construction, a move assignment
\* (onto itself or onto a Loaded target), a close and a destruction neither
\* drop a handle unclosed nor close one twice.  A run of such operations
\* that ends with every object destroyed has therefore closed every handle
\* the loader returned exactly once.
C28_EveryHandleClosedOnce ==
    [][\/ res'.op = "construct" /\ res'.outcome = "load_error"
       \/ /\ \A h \in Files : Unowned(h)' = Unowned(h)
          /\ \A o \in Objs : ~alive'[o] => m_handle'[o] = 0]_vars

\* Two objects were constructed, one on each file, and the last of them has
\* just been destroyed: each handle was opened once and closed once.
C28_Witness ==
    /\ res.op = "destroy"
    /\ res.pre[res.obj] # 0
    /\ \A o \in Objs : ~alive[o]
    /\ \A h \in Files : opens[h] = 1 /\ closes[h] = 1

Queries == {"get_symbol", "symbols", "has_symbol", "native_handle"}

\* What symbols() answers on the object of the last operation, called now.
SymbolsAgain == library_symbols(m_handle[res.obj], m_fd[res.obj])

\* symbols() called now answers what the last operation answered.
SameAsAnswered ==
    /\ SymbolsAgain.outcome = res.outcome
    /\ SymbolsAgain.list = res.list
    /\ SymbolsAgain.err = res.err

\* C29: get_symbol, symbols, has_symbol and native_handle, whether they
\* succeed or fail, leave the objects as they were: every object holds the
\* handle and the descriptor it held before the call, the object stays
\* constructed and its descriptor open; and after a symbols() a second
\* symbols() on the same object answers the same list, although the first
\* moved the offset of the descriptor.
C29_QueriesKeepState ==
    res.op \in Queries =>
        /\ m_handle = res.pre
        /\ m_fd = res.preFd
        /\ alive[res.obj]
        /\ m_fd[res.obj] > -1 => m_fd[res.obj] \in fdOpen
        /\ res.op = "symbols" => SameAsAnswered

\* symbols() answered a list on macOS and left the descriptor of the object
\* past the start of the file.
C29_Witness ==
    /\ res.op = "symbols"
    /\ platform = "mac"
    /\ res.outcome = "ok"
    /\ res.list # <<>>
    /\ m_handle[res.obj] = res.pre[res.obj]
    /\ FdPos(m_fd[res.obj]) = 1

\* The entries of cat whose demangled form passes the test for the request
\* n, those that are loadable (TRUE) or those that are not (FALSE).
Candidates(cat, n, loadable) ==
    {x \in cat : x.loadable = loadable /\ StartsAndEnds(demangle_symbol(platform, x.name), n)}

\* The catalog entries that are not loadable and whose demangled form passes
\* the test for the request n.
UnloadableCandidates(n) == Candidates(SeqSet(CatalogSeen), n, FALSE)

\* C30: in the fuzzy fallback an entry that is not loadable never counts as
\* a match: every match is the name of a loadable entry, so the address
\* returned and the names of an ambiguity are those of loadable entries, and
\* a request that only entries that are not loadable pass fails as
\* symbol_not_found.
C30_OnlyLoadableConsidered ==
    FellBack =>
        LET cat == SeqSet(CatalogSeen)
        IN  /\ \A i \in 1..Len(res.matches) :
                   \E e \in cat : e.loadable /\ e.name = res.matches[i]
            /\ \A x \in Candidates(cat, res.name, FALSE) : x.name \notin SeqSet(res.matches)
            /\ Candidates(cat, res.name, TRUE) = {} =>
                   (res.outcome = "symbol_not_found" /\ res.addr = 0)

\* A request that an entry listed but not loadable passes, and no loadable
\* one, failed as symbol_not_found.
C30_Witness ==
    /\ FellBack
    /\ UnloadableCandidates(res.name) # {}
    /\ LoadableMatches(res.name) = {}
    /\ res.outcome = "symbol_not_found"
    /\ res.matches = <<>>
====
